---------------------------- MODULE Spec2Model ----------------------------
(***************************************************************************)
(* A model of the rules engine of streamlit_app.py: the item catalog and   *)
(* its canonicalizer, the equipment slots, the armor-class computation and *)
(* the level-1 spellcasting state.  A character is the dict `char` of the  *)
(* source, modelled as a record; every engine function is an operator from *)
(* a character to the character it leaves behind, and every action applies *)
(* one engine function to the character and records the call in `last`.    *)
(*                                                                         *)
(* Python values: a str is a TLA+ string (TLC evaluates Len, Head, Tail,   *)
(* SubSeq and \o on strings), a list is a sequence, a dict with fixed keys *)
(* is a record, a dict iterated in insertion order is a sequence of        *)
(* <<key, value>> pairs.  None is the empty function <<>>; an Optional[str]*)
(* that is not None is the one-element sequence <<s>>; an equipment slot   *)
(* holds None or an entry record.                                          *)
(***************************************************************************)
EXTENDS Integers, Sequences, FiniteSets, TLC

VARIABLES char, last, names

vars == <<char, last, names>>

None == <<>>

Some(x) == <<x>>

(***************************************************************************)
(* Python str and list helpers                                             *)
(***************************************************************************)
ascii_uppercase == "ABCDEFGHIJKLMNOPQRSTUVWXYZ"

ascii_lowercase == "abcdefghijklmnopqrstuvwxyz"

\* string.punctuation, less the backquote, which a TLA+ string cannot hold (no
\* item name of the model contains one)
punctuation == "!\"#$%&'()*+,-./:;<=>?@[\\]^_{|}~"

whitespace == " \t"

CharAt(s, i) == SubSeq(s, i, i)

CharIn(c, s) == \E i \in 1..Len(s) : CharAt(s, i) = c

\* str.lower() on one character
lower_char(c) ==
    IF CharIn(c, ascii_uppercase)
    THEN CharAt(ascii_lowercase, CHOOSE i \in 1..Len(ascii_uppercase) : CharAt(ascii_uppercase, i) = c)
    ELSE c

RECURSIVE str_lower(_)
str_lower(s) == IF s = "" THEN "" ELSE lower_char(Head(s)) \o str_lower(Tail(s))

RECURSIVE str_lstrip(_)
str_lstrip(s) ==
    IF s # "" /\ CharIn(Head(s), whitespace) THEN str_lstrip(Tail(s)) ELSE s

RECURSIVE str_rstrip(_)
str_rstrip(s) ==
    IF s # "" /\ CharIn(CharAt(s, Len(s)), whitespace)
    THEN str_rstrip(SubSeq(s, 1, Len(s) - 1))
    ELSE s

str_strip(s) == str_rstrip(str_lstrip(s))

\* s.translate(str.maketrans("", "", string.punctuation))
RECURSIVE remove_punctuation(_)
remove_punctuation(s) ==
    IF s = "" THEN ""
    ELSE (IF CharIn(Head(s), punctuation) THEN "" ELSE Head(s)) \o remove_punctuation(Tail(s))

\* s.split(): the maximal runs of non-whitespace characters, in order
RECURSIVE str_split_from(_, _)
str_split_from(s, word) ==
    IF s = "" THEN (IF word = "" THEN <<>> ELSE <<word>>)
    ELSE IF CharIn(Head(s), whitespace)
         THEN (IF word = "" THEN <<>> ELSE <<word>>) \o str_split_from(Tail(s), "")
         ELSE str_split_from(Tail(s), word \o Head(s))

str_split(s) == str_split_from(s, "")

\* " ".join(words) for a list
RECURSIVE str_join(_)
str_join(words) ==
    IF words = <<>> THEN ""
    ELSE IF Len(words) = 1 THEN words[1]
    ELSE words[1] \o " " \o str_join(Tail(words))

\* `sub in s` for strings
str_contains(sub, s) ==
    \E i \in 1..(Len(s) - Len(sub) + 1) : SubSeq(s, i, i + Len(sub) - 1) = sub

\* str.upper() on one character
upper_char(c) ==
    IF CharIn(c, ascii_lowercase)
    THEN CharAt(ascii_uppercase, CHOOSE i \in 1..Len(ascii_lowercase) : CharAt(ascii_lowercase, i) = c)
    ELSE c

\* s.title(): a letter after a letter is lowered, any other letter is raised
RECURSIVE str_title_from(_, _)
str_title_from(s, after_letter) ==
    IF s = "" THEN ""
    ELSE LET c == Head(s)
             letter == CharIn(c, ascii_uppercase) \/ CharIn(c, ascii_lowercase)
         IN  (IF ~letter THEN c ELSE IF after_letter THEN lower_char(c) ELSE upper_char(c))
             \o str_title_from(Tail(s), letter)

str_title(s) == str_title_from(s, FALSE)

\* the least element of a non-empty set of integers (the first index that
\* passes a test, where a loop breaks at its first hit)
MinOf(S) == CHOOSE x \in S : \A y \in S : x <= y

\* set(list)
ToSet(seq) == {seq[i] : i \in 1..Len(seq)}

\* x in list
InList(x, seq) == \E i \in 1..Len(seq) : seq[i] = x

\* seq[:n]
Take(seq, n) == SubSeq(seq, 1, IF n < Len(seq) THEN n ELSE Len(seq))

Max(a, b) == IF a >= b THEN a ELSE b

Min(a, b) == IF a <= b THEN a ELSE b

\* dict helpers for a dict kept as a sequence of <<key, value>> pairs
DictKeys(d) == [i \in 1..Len(d) |-> d[i][1]]

DictHas(d, k) == \E i \in 1..Len(d) : d[i][1] = k

DictGet(d, k) == d[CHOOSE i \in 1..Len(d) : d[i][1] = k][2]

\* dict.get(k, default) on a record
Get(rec, k, default) == IF k \in DOMAIN rec THEN rec[k] ELSE default

(***************************************************************************)
(* Item catalog                                                            *)
(***************************************************************************)
Armor(category, base, dex_cap) ==
    [type |-> "armor", hands |-> 0,
     armor |-> [category |-> category, base |-> base, dex_cap |-> dex_cap]]

Weapon(hands, damage, properties) ==
    [type |-> "weapon", hands |-> hands, damage |-> damage, properties |-> properties]

Gear(properties) == [type |-> "gear", hands |-> 0, properties |-> properties]

SRD_ITEMS == <<
    <<"dagger",          Weapon(1, "1d4", <<"finesse", "light", "thrown">>)>>,
    <<"shortsword",      Weapon(1, "1d6", <<"finesse", "light">>)>>,
    <<"longsword",       Weapon(1, "1d8", <<"versatile 1d10">>)>>,
    <<"rapier",          Weapon(1, "1d8", <<"finesse">>)>>,
    <<"battleaxe",       Weapon(1, "1d8", <<"versatile 1d10">>)>>,
    <<"warhammer",       Weapon(1, "1d8", <<"versatile 1d10">>)>>,
    <<"greataxe",        Weapon(2, "1d12", <<"heavy", "two-handed">>)>>,
    <<"greatsword",      Weapon(2, "2d6", <<"heavy", "two-handed">>)>>,
    <<"shortbow",        Weapon(2, "1d6", <<"two-handed", "ammunition", "range">>)>>,
    <<"longbow",         Weapon(2, "1d8", <<"heavy", "two-handed", "ammunition", "range">>)>>,
    <<"shield",          [type |-> "shield", hands |-> 1, ac_bonus |-> 2,
                          properties |-> <<"worn in one arm">>]>>,
    <<"leather armor",   Armor("light", 11, None)>>,
    <<"studded leather", Armor("light", 12, None)>>,
    <<"chain shirt",     Armor("medium", 13, Some(2))>>,
    <<"scale mail",      Armor("medium", 14, Some(2))>>,
    <<"half plate",      Armor("medium", 15, Some(2))>>,
    <<"chain mail",      Armor("heavy", 16, Some(0))>>,
    <<"splint",          Armor("heavy", 17, Some(0))>>,
    <<"plate",           Armor("heavy", 18, Some(0))>>,
    <<"boots",           Gear(<<"footwear">>)>>,
    <<"cloak",           Gear(<<"clothing">>)>>,
    <<"ring",            Gear(<<"jewelry">>)>>,
    <<"amulet",          Gear(<<"neckwear">>)>>,
    <<"helm",            Gear(<<"headwear">>)>> >>

SRD_ALIASES == <<
    <<"leather", "leather armor">>,
    <<"leather armour", "leather armor">>,
    <<"studded leather armor", "studded leather">>,
    <<"studded armour", "studded leather">>,
    <<"chainmail", "chain mail">>,
    <<"chain mail armor", "chain mail">>,
    <<"chainmail armor", "chain mail">>,
    <<"mail", "chain mail">>,
    <<"half-plate", "half plate">>,
    <<"breastplate", "scale mail">>,
    <<"long sword", "longsword">>,
    <<"short sword", "shortsword">>,
    <<"battle axe", "battleaxe">>,
    <<"war hammer", "warhammer">>,
    <<"great sword", "greatsword">>,
    <<"great axe", "greataxe">>,
    <<"buckler", "shield">>,
    <<"helmet", "helm">>,
    <<"chain shirt armor", "chain shirt">> >>

CLEAN_WORDS_TO_DROP ==
    {"well-made", "fine", "sturdy", "rusty", "old", "new", "decorated", "engraved",
     "masterwork", "+1", "+2", "+3", "+4", "+5", "armor", "armour", "of", "the"}

(***************************************************************************)
(* Canonicalizer                                                           *)
(***************************************************************************)
\* [w for w in words if w and w not in CLEAN_WORDS_TO_DROP]
RECURSIVE drop_clean_words(_)
drop_clean_words(words) ==
    IF words = <<>> THEN <<>>
    ELSE (IF words[1] # "" /\ words[1] \notin CLEAN_WORDS_TO_DROP THEN <<words[1]>> ELSE <<>>)
         \o drop_clean_words(Tail(words))

tokenize(s) == drop_clean_words(str_split(remove_punctuation(str_lower(s))))

\* SRD_ALIASES.get(key): None or the aliased catalog key
canonical_alias(s) ==
    LET key == str_lower(str_strip(s))
    IN  IF DictHas(SRD_ALIASES, key) THEN Some(DictGet(SRD_ALIASES, key)) ELSE None

\* len(" ".join(tokens)) for a set of tokens
RECURSIVE JoinedLen(_)
JoinedLen(tokens) ==
    IF tokens = {} THEN 0
    ELSE LET t == CHOOSE x \in tokens : TRUE
         IN  Len(t) + (IF tokens = {t} THEN 0 ELSE 1 + JoinedLen(tokens \ {t}))

\* The fuzzy loop with ">=" for ">": on equal lengths the later key wins.
RECURSIVE fuzzy_match_last_on_ties(_, _, _, _)
fuzzy_match_last_on_ties(name_tokens, i, best, best_len) ==
    IF i > Len(SRD_ITEMS) THEN best
    ELSE LET key == SRD_ITEMS[i][1]
             key_tokens == ToSet(tokenize(key))
         IN  IF key_tokens # {} /\ key_tokens \subseteq name_tokens
                /\ JoinedLen(key_tokens) >= best_len
             THEN fuzzy_match_last_on_ties(name_tokens, i + 1, Some(key), JoinedLen(key_tokens))
             ELSE fuzzy_match_last_on_ties(name_tokens, i + 1, best, best_len)

\* The fuzzy fallback loop over SRD_ITEMS.keys(), from key number i on, with
\* the best key found so far (None at first) and its joined token length.
RECURSIVE fuzzy_match(_, _, _, _)
fuzzy_match(name_tokens, i, best, best_len) ==
    IF i > Len(SRD_ITEMS) THEN best
    ELSE LET key == SRD_ITEMS[i][1]
             key_tokens == ToSet(tokenize(key))
         IN  IF key_tokens # {} /\ key_tokens \subseteq name_tokens
                /\ JoinedLen(key_tokens) > best_len
             THEN fuzzy_match(name_tokens, i + 1, Some(key), JoinedLen(key_tokens))
             ELSE fuzzy_match(name_tokens, i + 1, best, best_len)

\* A canonicalizer that hands back the lowered input itself instead of looking
\* it up (used to test the catalog-key claim).
canonicalize_item_name_echo(name) ==
    IF name = "" THEN None ELSE Some(str_lower(str_strip(name)))

\* Steps (a) to (c) of canonicalize_item_name: the exact key, the alias of the
\* lowered name, the alias of the cleaned name, the cleaned name as a key;
\* None when none of them is in the catalog.
direct_match(name) ==
    LET low == str_lower(str_strip(name))
        ali == canonical_alias(low)
        cleaned == str_join(tokenize(low))
        ali2 == canonical_alias(cleaned)
    IN  IF DictHas(SRD_ITEMS, low) THEN Some(low)
        ELSE IF ali # None /\ DictHas(SRD_ITEMS, ali[1]) THEN ali
        ELSE IF ali2 # None /\ DictHas(SRD_ITEMS, ali2[1]) THEN ali2
        ELSE IF DictHas(SRD_ITEMS, cleaned) THEN Some(cleaned)
        ELSE None

canonicalize_item_name(name) ==
    IF name = "" THEN None
    ELSE IF direct_match(name) # None THEN direct_match(name)
    ELSE fuzzy_match(ToSet(tokenize(str_lower(str_strip(name)))), 1, None, -1)

\* None or the catalog record
lookup_item_stats(name) ==
    LET canon == canonicalize_item_name(name)
    IN  IF name # "" /\ canon # None /\ DictHas(SRD_ITEMS, canon[1])
        THEN DictGet(SRD_ITEMS, canon[1])
        ELSE None

\* ", ".join(props) or "--" (the source's em dash is written "--": a TLA+
\* string holds ASCII only)
RECURSIVE join_comma(_)
join_comma(words) ==
    IF words = <<>> THEN ""
    ELSE IF Len(words) = 1 THEN words[1]
    ELSE words[1] \o ", " \o join_comma(Tail(words))

TypeIs(stats, t) == "type" \in DOMAIN stats /\ stats.type = t

summarize_item(name, stats) ==
    IF stats = None THEN (IF name # "" THEN name ELSE "--")
    ELSE LET canon == canonicalize_item_name(name)
             label == IF canon # None THEN canon[1] ELSE name
             props == IF Get(stats, "properties", <<>>) # <<>>
                      THEN join_comma(stats.properties) ELSE "--"
         IN  IF TypeIs(stats, "weapon")
             THEN label \o " -- " \o stats.damage \o " dmg, " \o props
                  \o "; hands: " \o ToString(Get(stats, "hands", 1))
             ELSE IF TypeIs(stats, "shield")
             THEN label \o " -- +" \o ToString(Get(stats, "ac_bonus", 0)) \o " AC (shield)"
             ELSE IF TypeIs(stats, "armor")
             THEN LET a == stats.armor
                      dex_text == IF a.dex_cap = None THEN "+ Dex"
                                  ELSE IF a.dex_cap[1] > 0
                                       THEN "+ Dex (max " \o ToString(a.dex_cap[1]) \o ")"
                                       ELSE ""
                  IN  label \o " -- " \o a.category \o " armor, AC " \o ToString(a.base)
                      \o (IF dex_text # "" THEN " " \o dex_text ELSE "")
             ELSE label \o " -- " \o props

(***************************************************************************)
(* Equipment slots                                                         *)
(***************************************************************************)
SLOTS == <<"right_arm", "left_arm", "body", "feet", "right_hand", "left_hand", "neck", "head">>

SlotSet == ToSet(SLOTS)

WEAPON_WORDS == <<
    "sword", "dagger", "axe", "mace", "spear", "bow", "crossbow", "staff", "club",
    "blade", "hammer", "rapier", "longsword", "shortsword", "katana",
    "pistol", "rifle", "shotgun", "smg", "revolver", "gun", "greataxe", "greatsword",
    "longbow", "shortbow" >>

SHIELD_WORDS == <<"shield", "buckler">>

ARMOR_WORDS == <<
    "armor", "armour", "leather", "studded", "chain", "chainmail", "mail", "scale", "plate",
    "half plate", "splint", "breastplate", "brigandine", "vest", "robes", "robe", "tunic" >>

BOOTS_WORDS == <<"boots", "shoes", "greaves", "sandals", "sabatons">>

RING_WORDS == <<"ring", "band", "signet">>

NECK_WORDS == <<"necklace", "amulet", "pendant", "torc">>

HEAD_WORDS == <<"helmet", "helm", "diadem", "crown", "hat", "hood", "cap">>

is_match(word_list, name) ==
    LET low == str_lower(name)
    IN  \E i \in 1..Len(word_list) : str_contains(word_list[i], low)

\* The slots the inventory panel offers for an item, as a set: the order of
\* the source's list only orders the choices of the select box.
detect_candidate_slots(item_name) ==
    LET slots ==
            (IF is_match(SHIELD_WORDS, item_name) THEN {"left_arm", "right_arm"} ELSE {})
            \cup (IF is_match(WEAPON_WORDS, item_name) THEN {"right_arm", "left_arm"} ELSE {})
            \cup (IF is_match(ARMOR_WORDS, item_name) THEN {"body"} ELSE {})
            \cup (IF is_match(BOOTS_WORDS, item_name) THEN {"feet"} ELSE {})
            \cup (IF is_match(RING_WORDS, item_name) THEN {"right_hand", "left_hand"} ELSE {})
            \cup (IF is_match(NECK_WORDS, item_name) THEN {"neck"} ELSE {})
            \cup (IF is_match(HEAD_WORDS, item_name) THEN {"head"} ELSE {})
    IN  IF slots = {} THEN SlotSet ELSE slots

\* The entry equip_to_slot builds for an item: stats or {} is the record, or
\* the empty dict, which None already is.
new_entry(item_name) ==
    LET stats == lookup_item_stats(item_name)
    IN  [item |-> item_name, stats |-> stats, summary |-> summarize_item(item_name, stats)]

(***************************************************************************)
(* Spell lists and class canonicalization                                  *)
(***************************************************************************)
WIZARD_SPELLS_L1 ==
    <<"Magic Missile", "Shield", "Mage Armor", "Thunderwave", "Chromatic Orb",
      "Grease", "Burning Hands", "Sleep", "Detect Magic", "Identify">>

CLERIC_SPELLS_L1 ==
    <<"Cure Wounds", "Bless", "Shield of Faith", "Guiding Bolt", "Healing Word",
      "Detect Evil and Good", "Sanctuary", "Inflict Wounds", "Protection from Evil and Good">>

CLASS_SPELL_LISTS ==
    << <<"Wizard", << <<"1", WIZARD_SPELLS_L1>> >> >>,
       <<"Cleric", << <<"1", CLERIC_SPELLS_L1>> >> >> >>

CLASS_SLOT_RULES ==
    << <<"Wizard", << <<"1", 2>> >> >>,
       <<"Cleric", << <<"1", 2>> >> >> >>

\* d.get(k, default) for an ordered dict
DictGetOr(d, k, default) == IF DictHas(d, k) THEN DictGet(d, k) ELSE default

\* a lookup that falls back on the Wizard's lists for a class without any
get_class_spell_list_defaulting(cls, level) ==
    DictGetOr(DictGetOr(CLASS_SPELL_LISTS, cls, DictGet(CLASS_SPELL_LISTS, "Wizard")),
              ToString(level), <<>>)

get_class_spell_list(cls, level) ==
    DictGetOr(DictGetOr(CLASS_SPELL_LISTS, cls, <<>>), ToString(level), <<>>)

CASTER_KEYWORDS == << <<"wizard", "Wizard">>, <<"cleric", "Cleric">> >>

canonical_class(name) ==
    LET s == str_lower(name)
        hits == {i \in 1..Len(CASTER_KEYWORDS) : str_contains(CASTER_KEYWORDS[i][1], s)}
    IN  IF hits # {} THEN CASTER_KEYWORDS[MinOf(hits)][2]
        ELSE str_title(str_strip(name))

\* The race_class strings and the spell names of the model's characters.
ClassNames == {"Wizard", "war cleric", "Fighter"}

SpellNames == ToSet(WIZARD_SPELLS_L1) \cup ToSet(CLERIC_SPELLS_L1)
                  \cup {"magic missile", "Fireball"}

(***************************************************************************)
(* The item names of the model's inventories.  The functions above are     *)
(* pure: what they return for every string the engine meets (the item      *)
(* names, the race_class strings, and for str.lower the catalog keys, the  *)
(* spell names and "" as well) is computed once, in the initial state, and *)
(* kept in the variable `names`, which no step changes.  The engine        *)
(* functions below read the results there.                                 *)
(***************************************************************************)
Inventories == {
    <<"Greatsword", "Shield", "dagger", "Plate">>,
    <<"Long Sword", "longsword", "Buckler", "Ringed Greataxe", "Robes">> }

\* Armor names met in the body slot of a saved game.
SavedArmorNames == {"Leather Armor", "Studded Leather", "Chain Shirt", "Scale Mail",
                    "Half Plate", "Chain Mail", "Splint", "Plate"}

\* Inventories of clothing and jewelry: rings with and without a catalog
\* record, headwear, footwear, neckwear.
Wardrobes == {
    <<"Earring", "Boots">>,
    <<"Leather Cap", "Ring", "Amulet">>,
    <<"Iron Helm", "Earring", "Ring", "Boots">> }

ItemNames == UNION {ToSet(inv) : inv \in Inventories \cup Wardrobes} \cup SavedArmorNames

(***************************************************************************)
(* Item names as a generated sheet can spell them, for the canonicalizer:  *)
(* a catalog key or an alias behind quality adjectives and enchantment     *)
(* markers, and up to three words of catalog keys in any order, with the   *)
(* blanks of the words left out (the empty and the blank name among them), *)
(* and names of punctuation and of unknown words.                          *)
(***************************************************************************)
StopwordPrefixes == {"", "rusty ", "+1 ", "rusty +1 ", "the old ", "fine engraved "}

\* <<spelling, catalog key>>: aliases of SRD_ALIASES and keys of SRD_ITEMS
CanonBases ==
    { <<"Long Sword", "longsword">>, <<"great axe", "greataxe">>, <<"buckler", "shield">>,
      <<"leather", "leather armor">>, <<"chainmail", "chain mail">>,
      <<"longsword", "longsword">>, <<"plate", "plate">>, <<"chain mail", "chain mail">>,
      <<"studded leather", "studded leather">>, <<"shield", "shield">> }

\* a name and the key it is expected to resolve to
StopwordCases == {[name |-> p \o b[1], key |-> b[2]] : p \in StopwordPrefixes, b \in CanonBases}

KeyWords == {"", "half", "plate", "greatsword", "chain", "mail"}

WordNames == {a \o " " \o b \o " " \o c : a \in KeyWords, b \in KeyWords, c \in KeyWords}

OddNames == {"", "!!!", "+1", "xyzzy", "unknown thing", "the old armor", "Ringed Greataxe"}

CanonNames == {cs.name : cs \in StopwordCases} \cup WordNames \cup OddNames

NameTables ==
    [canon |-> [n \in ItemNames |-> canonicalize_item_name(n)],
     lower |-> [n \in ItemNames \cup ToSet(DictKeys(SRD_ITEMS)) \cup SpellNames \cup {""}
                   |-> str_lower(n)],
     class |-> [n \in ClassNames |-> canonical_class(n)],
     entry |-> [n \in ItemNames |-> new_entry(n)],
     slots |-> [n \in ItemNames |-> detect_candidate_slots(n)]]

\* The tables of the canonicalizer machine: the result of
\* canonicalize_item_name and the intermediate values of its steps for every
\* name that machine draws.
CanonTables ==
    [canon |-> [n \in CanonNames |-> canonicalize_item_name(n)],
     tokens |-> [n \in CanonNames \cup ToSet(DictKeys(SRD_ITEMS)) |-> tokenize(n)],
     direct |-> [n \in CanonNames |-> direct_match(n)],
     joined |-> [k \in ToSet(DictKeys(SRD_ITEMS)) |-> JoinedLen(ToSet(tokenize(k)))]]

\* canonicalize_item_name(name)
canon_of(name) == names.canon[name]

\* s.lower()
lower_of(s) == names.lower[s]

\* {"item": name, "stats": stats or {}, "summary": summarize_item(name, stats or {})}
entry_of(name) == names.entry[name]

\* lookup_item_stats(name)
stats_of(name) == names.entry[name].stats

\* detect_candidate_slots(name)
slots_of(name) == names.slots[name]

\* set(_tokenize(name))
tokens_of(name) == ToSet(names.tokens[name])

\* the result of the exact, alias and normalized lookups, None when all miss
direct_of(name) == names.direct[name]

\* len(" ".join(key_tokens)) of a catalog key
joined_of(key) == names.joined[key]

\* canonical_class(name)
class_of(name) == names.class[name]

\* canonicalize_item_name(name) or name
canon_or_name(name) ==
    LET canon == canon_of(name) IN IF canon # None THEN canon[1] ELSE name

\* dict assignment rec[k] = v, whether or not the key is there yet
SetKey(rec, k, v) == [x \in (DOMAIN rec) \cup {k} |-> IF x = k THEN v ELSE rec[x]]

\* Every slot key present; a slot value of the model is None or an entry, so
\* the reset of non-dict values has nothing to reset.
ensure_equipped_slots(c) ==
    IF "equipped" \in DOMAIN c THEN c
    ELSE SetKey(c, "equipped", [s \in SlotSet |-> None])

unequip_slot(c, slot) ==
    LET c1 == ensure_equipped_slots(c)
    IN  [c1 EXCEPT !.equipped[slot] = None]

is_two_handed_weapon(stats) == TypeIs(stats, "weapon") /\ Get(stats, "hands", 1) = 2

\* equip_to_slot without the loop that removes the same canonical item from
\* the other slots and without the two-handed branch: the entry is only placed.
equip_placing_only(c, slot, item_name) ==
    [ensure_equipped_slots(c) EXCEPT !.equipped[slot] = entry_of(item_name)]

equip_to_slot(c, slot, item_name) ==
    LET c1 == ensure_equipped_slots(c)
        stats == stats_of(item_name)
        norm == lower_of(canon_or_name(item_name))
        \* the loop that removes the same canonical item from every slot
        cleared == [s \in SlotSet |->
                      IF c1.equipped[s] # None
                         /\ lower_of(canon_or_name(c1.equipped[s].item)) = norm
                      THEN None ELSE c1.equipped[s]]
        entry == entry_of(item_name)
        placed == [cleared EXCEPT ![slot] = entry]
        other == IF slot = "right_arm" THEN "left_arm" ELSE "right_arm"
        mirrored == [placed EXCEPT ![other] = entry]
        \* e is not entry: every slot but the two just assigned
        evicted == [s \in SlotSet |->
                      IF s \in {"left_arm", "right_arm"} /\ mirrored[s] # None
                         /\ TypeIs(mirrored[s].stats, "shield") /\ s \notin {slot, other}
                      THEN None ELSE mirrored[s]]
    IN  [c1 EXCEPT !.equipped = IF is_two_handed_weapon(stats) THEN evicted ELSE placed]

\* canonicalize_item_name(raw) or ""
canon_or_empty(raw) ==
    LET canon == canon_of(raw) IN IF canon # None THEN canon[1] ELSE ""

\* canonicalize_item_name(raw) or raw.lower()
canon_or_lower(raw) ==
    LET canon == canon_of(raw) IN IF canon # None THEN canon[1] ELSE lower_of(raw)

ARMOR_ORDER == <<"plate", "splint", "chain mail", "half plate", "scale mail", "chain shirt",
                 "studded leather", "leather armor">>

\* Each step of auto_equip_defaults: `for raw in inv: if <test>: equip; break`
\* equips the first inventory item that passes the test, if the slot is empty.
equip_first(c, slot, hits) ==
    IF hits = {} THEN c ELSE equip_to_slot(c, slot, c.inventory[MinOf(hits)])

auto_body(c) ==
    IF c.equipped["body"] # None THEN c
    ELSE equip_first(c, "body",
            {i \in 1..Len(c.inventory) :
                LET canon == canon_of(c.inventory[i])
                IN  canon # None /\ InList(canon[1], ARMOR_ORDER)})

auto_right_arm(c) ==
    IF c.equipped["right_arm"] # None THEN c
    ELSE equip_first(c, "right_arm",
            {i \in 1..Len(c.inventory) : TypeIs(stats_of(c.inventory[i]), "weapon")})

auto_left_arm(c) ==
    LET right == c.equipped["right_arm"]
        right_two_handed == right # None /\ is_two_handed_weapon(right.stats)
    IN  IF right_two_handed \/ c.equipped["left_arm"] # None THEN c
        ELSE equip_first(c, "left_arm",
                {i \in 1..Len(c.inventory) : TypeIs(stats_of(c.inventory[i]), "shield")})

auto_feet(c) ==
    IF c.equipped["feet"] # None THEN c
    ELSE equip_first(c, "feet",
            {i \in 1..Len(c.inventory) : str_contains("boots", canon_or_empty(c.inventory[i]))})

auto_neck(c) ==
    IF c.equipped["neck"] # None THEN c
    ELSE equip_first(c, "neck",
            {i \in 1..Len(c.inventory) :
                LET can == canon_or_empty(c.inventory[i])
                IN  \/ can = "amulet"
                    \/ str_contains("necklace", can) \/ str_contains("pendant", can)
                    \/ str_contains("torc", can)})

auto_head(c) ==
    IF c.equipped["head"] # None THEN c
    ELSE equip_first(c, "head",
            {i \in 1..Len(c.inventory) :
                LET raw == c.inventory[i]
                IN  \/ canon_or_empty(raw) = "helm"
                    \/ str_contains("helmet", lower_of(raw)) \/ str_contains("hood", lower_of(raw))
                    \/ str_contains("cap", lower_of(raw))})

auto_right_hand(c) ==
    IF c.equipped["right_hand"] # None THEN c
    ELSE equip_first(c, "right_hand",
            {i \in 1..Len(c.inventory) : str_contains("ring", canon_or_lower(c.inventory[i]))})

auto_left_hand(c) ==
    IF c.equipped["left_hand"] # None THEN c
    ELSE equip_first(c, "left_hand",
            {i \in 1..Len(c.inventory) :
                LET can == canon_or_lower(c.inventory[i])
                    ring == c.equipped["right_hand"]
                IN  /\ str_contains("ring", can)
                    /\ (ring = None \/ lower_of(canon_or_empty(ring.item)) # can)})

\* The steps in the order of the source, each on the character the step
\* before it left (a bound variable holds the value, so that it is computed
\* once).
auto_equip_defaults(c) ==
    CHOOSE done \in
        {auto_left_hand(c7) : c7 \in
        {auto_right_hand(c6) : c6 \in
        {auto_head(c5) : c5 \in
        {auto_neck(c4) : c4 \in
        {auto_feet(c3) : c3 \in
        {auto_left_arm(c2) : c2 \in
        {auto_right_arm(c1) : c1 \in
        {auto_body(c0) : c0 \in {ensure_equipped_slots(c)}}}}}}}}} : TRUE

(***************************************************************************)
(* The character a creation returns (the CharacterSheet fields, name and   *)
(* race), before any engine function has touched it.                       *)
(***************************************************************************)
CharacterSheet(race_class, inventory) ==
    [name |-> "Aria", race |-> "Human", race_class |-> race_class,
     str_mod |-> 1, dex_mod |-> 2, con_mod |-> 1, int_mod |-> 1, wis_mod |-> 0, cha_mod |-> 0,
     current_hp |-> 20, morale_sanity |-> 100, inventory |-> inventory, experience |-> 0]

\* The call the last step made: its name, arguments and result, and the
\* character as it was before the call.
Call(op, slot, item, pre) ==
    [op |-> op, slot |-> slot, item |-> item, spell |-> "", ok |-> FALSE, ac |-> 0,
     result |-> None, pre |-> pre]

(***************************************************************************)
(* Equipment machine: equip, unequip and auto-equip on one character.      *)
(***************************************************************************)
InitEquip ==
    /\ names = NameTables
    /\ char \in {ensure_equipped_slots(CharacterSheet("Fighter", inv)) : inv \in Inventories}
    /\ last = Call("init", "", "", char)

\* equip_to_slot with an inventory item and one of the slots the inventory
\* panel offers for it.  The panel shows its Equip button only for an item
\* that is in no slot yet; the function takes the call in every state, and so
\* does the action.
Equip ==
    \E i \in 1..Len(char.inventory) :
        \E slot \in slots_of(char.inventory[i]) :
            /\ char' = equip_to_slot(char, slot, char.inventory[i])
            /\ last' = Call("equip", slot, char.inventory[i], char)
            /\ UNCHANGED names

\* unequip_slot on any slot (the panel's Unequip button passes the first slot
\* that holds the item).
Unequip ==
    \E slot \in SlotSet :
        /\ char' = unequip_slot(char, slot)
        /\ last' = Call("unequip", slot, "", char)
        /\ UNCHANGED names

AutoEquip ==
    /\ char' = auto_equip_defaults(char)
    /\ last' = Call("auto_equip", "", "", char)
    /\ UNCHANGED names

NextEquip == Equip \/ Unequip \/ AutoEquip

SpecEquip == InitEquip /\ [][NextEquip]_vars

(***************************************************************************)
(* Properties of the equipment machine.                                    *)
(***************************************************************************)
Arms == {"right_arm", "left_arm"}

OtherArm(slot) == IF slot = "right_arm" THEN "left_arm" ELSE "right_arm"

\* e and e.get("stats",{}).get("type")=="shield"
IsShield(e) == e # None /\ TypeIs(e.stats, "shield")

\* an entry whose stats are a weapon with hands == 2
IsTwoHanded(e) == e # None /\ is_two_handed_weapon(e.stats)

\* the identity equip_to_slot compares entries by
NormOf(item_name) == lower_of(canon_or_name(item_name))

\* the slots of an equipment table that hold the canonical item of item_name
SlotsHolding(equipped, item_name) ==
    {s \in SlotSet : equipped[s] # None /\ NormOf(equipped[s].item) = NormOf(item_name)}

\* C1: from all-empty slots, no sequence of equip, unequip and
\* auto_equip_defaults calls reaches a state with a shield in one arm slot
\* while a two-handed weapon occupies an arm slot.
C1_NoShieldBesideTwoHander ==
    \A a \in Arms : \A b \in Arms :
        ~(IsShield(char.equipped[a]) /\ IsTwoHanded(char.equipped[b]))

\* C2: for every slot argument and every prior equipment state, equipping an
\* item that resolves to a two-handed weapon leaves the same entry in both
\* right_arm and left_arm and no shield in either arm.
C2_TwoHandedFillsBothArms ==
    (last.op = "equip" /\ is_two_handed_weapon(stats_of(last.item)))
        => /\ char.equipped["right_arm"] = entry_of(last.item)
           /\ char.equipped["left_arm"] = entry_of(last.item)
           /\ \A a \in Arms : ~IsShield(char.equipped[a])

\* C3: unequip of an arm slot that holds a two-handed weapon clears both arm
\* slots together; unequip of any other slot content clears exactly that slot
\* and leaves every other slot unchanged.
C3_UnequipClearsTwoHanderTogether ==
    last.op = "unequip"
        => LET pre == last.pre.equipped
           IN  IF last.slot \in Arms /\ IsTwoHanded(pre[last.slot])
               THEN \A a \in Arms : char.equipped[a] = None
               ELSE char.equipped = [pre EXCEPT ![last.slot] = None]

\* C4: in every reachable state no canonical item occupies two slots at once,
\* except a two-handed weapon, which occupies exactly right_arm and left_arm
\* (never one arm alone, never a non-arm slot plus an arm).
C4_OneSlotPerItem ==
    \A s \in SlotSet :
        char.equipped[s] # None
            => SlotsHolding(char.equipped, char.equipped[s].item)
                   = IF IsTwoHanded(char.equipped[s]) THEN Arms ELSE {s}

\* the last step equipped a one-handed weapon into an arm slot
OneHandedIntoArm ==
    /\ last.op = "equip"
    /\ last.slot \in Arms
    /\ TypeIs(stats_of(last.item), "weapon")
    /\ ~is_two_handed_weapon(stats_of(last.item))

\* C5 as stated: equipping a one-handed weapon into one arm slot leaves the
\* content of the opposite arm slot unchanged, whatever it held before (same
\* canonical item, a two-handed weapon, a shield, or nothing).
C5_OppositeArmUntouched ==
    OneHandedIntoArm
        => char.equipped[OtherArm(last.slot)] = last.pre.equipped[OtherArm(last.slot)]

\* C5, amended: equipping a one-handed weapon into one arm slot leaves the
\* opposite arm slot unchanged (a two-handed weapon, a shield or nothing stays
\* as it was), unless the opposite arm held the same canonical item, in which
\* case the opposite arm is cleared.
C5_OppositeArmUntouchedUnlessSameItem ==
    OneHandedIntoArm
        => LET opp == OtherArm(last.slot)
               pre == last.pre.equipped
           IN  char.equipped[opp] =
                   IF opp \in SlotsHolding(pre, last.item) THEN None ELSE pre[opp]

\* A one-handed weapon went into one arm while the opposite arm held the same
\* canonical item under another name, and the opposite arm is now empty.
C5_Witness ==
    /\ OneHandedIntoArm
    /\ OtherArm(last.slot) \in SlotsHolding(last.pre.equipped, last.item)
    /\ last.pre.equipped[OtherArm(last.slot)].item # last.item
    /\ char.equipped[OtherArm(last.slot)] = None
    /\ char.equipped[last.slot] = entry_of(last.item)

(***************************************************************************)
(* Armor class.  compute_ac returns the number and a text that explains    *)
(* it; the model computes the number.                                      *)
(***************************************************************************)
\* char.get("equipped",{}).get(slot)
equipped_get(c, slot) ==
    LET equipped == Get(c, "equipped", <<>>)
    IN  IF slot \in DOMAIN equipped THEN equipped[slot] ELSE None

\* armor_entry and armor_entry.get("stats",{}).get("type")=="armor"
wears_armor(c) ==
    LET armor_entry == equipped_get(c, "body")
    IN  armor_entry # None /\ TypeIs(armor_entry.stats, "armor")

base(c) == IF wears_armor(c) THEN equipped_get(c, "body").stats.armor.base ELSE 10

\* the dexterity modifier added whole, whatever the armor's cap
dex_add_uncapped(c) == Get(c, "dex_mod", 0)

\* dex where the armor's dex_cap is None (and without armor), else
\* max(min(dex, cap), -999), as the source writes it
dex_add(c) ==
    LET dex == Get(c, "dex_mod", 0)
    IN  IF wears_armor(c) /\ equipped_get(c, "body").stats.armor.dex_cap # None
        THEN Max(Min(dex, equipped_get(c, "body").stats.armor.dex_cap[1]), -999)
        ELSE dex

\* one turn of the loop over left_arm, right_arm
shield_step(c, arm, shield_bonus) ==
    LET e == equipped_get(c, arm)
    IN  IF e # None /\ TypeIs(e.stats, "shield")
        THEN Max(shield_bonus, Get(e.stats, "ac_bonus", 0))
        ELSE shield_bonus

\* the two arms' bonuses added together instead of the larger one kept
shield_bonus_summed(c) ==
    LET bonus(arm) == shield_step(c, arm, 0)
    IN  bonus("left_arm") + bonus("right_arm")

shield_bonus(c) == shield_step(c, "right_arm", shield_step(c, "left_arm", 0))

compute_ac(c) == base(c) + dex_add(c) + shield_bonus(c)

MaxDexPenalty == 5
MaxDex == 10

\* A shield record of a saved game that is not the catalog's: the load keeps
\* the stats a saved entry carries (normalize_equipped_entry) and fills in the
\* summary the file lacks.
LegacyShieldStats ==
    [type |-> "shield", hands |-> 1, ac_bonus |-> 1, properties |-> <<"worn in one arm">>]

LegacyShield ==
    [item |-> "Buckler", stats |-> LegacyShieldStats,
     summary |-> summarize_item("Buckler", LegacyShieldStats)]

\* What a loaded game can hold in the body slot and in an arm slot.
SavedBodies == {None, NameTables.entry["Robes"], NameTables.entry["dagger"]}
                   \cup {NameTables.entry[n] : n \in SavedArmorNames}

SavedArms == {None, NameTables.entry["Shield"], NameTables.entry["dagger"], LegacyShield}

(***************************************************************************)
(* Armor-class machine: a character as the staged load of a saved game     *)
(* leaves it (any dexterity modifier of the range, any body and arm        *)
(* entries of the file), then unequip and the sheet's compute_ac.          *)
(***************************************************************************)
InitAC ==
    /\ names = NameTables
    /\ \E dex \in (0 - MaxDexPenalty)..MaxDex :
        \E body \in SavedBodies : \E right \in SavedArms : \E left \in SavedArms :
            char = [CharacterSheet("Fighter", <<"Greatsword", "Shield", "dagger", "Plate">>)
                        EXCEPT !.dex_mod = dex]
                   @@ [equipped |-> [s \in SlotSet |->
                          CASE s = "body" -> body
                            [] s = "right_arm" -> right
                            [] s = "left_arm" -> left
                            [] OTHER -> None]]
    /\ last = Call("init", "", "", char)

ComputeAC ==
    /\ last' = [Call("compute_ac", "", "", char) EXCEPT !.ac = compute_ac(char)]
    /\ UNCHANGED <<char, names>>

NextAC == Unequip \/ ComputeAC

SpecAC == InitAC /\ [][NextAC]_vars

(***************************************************************************)
(* Properties of compute_ac.                                               *)
(***************************************************************************)
\* the armor record of the body slot ([category, base, dex_cap]), if any
BodyArmor == char.equipped["body"].stats.armor

BodyCategory == IF wears_armor(char) THEN BodyArmor.category ELSE "none"

ArmBonus(arm) == IF IsShield(char.equipped[arm]) THEN char.equipped[arm].stats.ac_bonus ELSE 0

\* the maximum ac_bonus over the shields of the two arms, 0 without a shield
MaxArmBonus == Max(ArmBonus("right_arm"), ArmBonus("left_arm"))

\* the character with both arm slots emptied
WithoutArms == [char EXCEPT !.equipped["right_arm"] = None, !.equipped["left_arm"] = None]

Computed == last.op = "compute_ac"

\* C6: with heavy armor in the body slot compute_ac returns exactly the
\* armor's base AC plus the shield bonus, for every dex modifier in [-5, 10].
C6_HeavyArmorIgnoresDex ==
    (Computed /\ BodyCategory = "heavy") => last.ac = BodyArmor.base + MaxArmBonus

\* C7: for every dex modifier in [-5, 10] compute_ac, before the shield, is
\* 10 + dex when the body slot holds no armor record, base + dex for light
\* armor and base + min(dex, dex_cap) for medium armor.
C7_UnarmoredLightMedium ==
    Computed =>
        /\ BodyCategory = "none" => last.ac - MaxArmBonus = 10 + char.dex_mod
        /\ BodyCategory = "light" => last.ac - MaxArmBonus = BodyArmor.base + char.dex_mod
        /\ BodyCategory = "medium" =>
               last.ac - MaxArmBonus = BodyArmor.base + Min(char.dex_mod, BodyArmor.dex_cap[1])

\* compute_ac ran on medium armor with dex one above the cap, beside a shield
C7_Witness ==
    /\ Computed
    /\ BodyCategory = "medium"
    /\ char.dex_mod = BodyArmor.dex_cap[1] + 1
    /\ MaxArmBonus > 0
    /\ last.ac = BodyArmor.base + BodyArmor.dex_cap[1] + MaxArmBonus

\* C8: what compute_ac adds for shields is the maximum ac_bonus over the
\* shields in right_arm and left_arm, 0 when neither arm holds a shield; two
\* shields never add their bonuses together.
C8_ShieldBonusOnce ==
    Computed => last.ac - compute_ac(WithoutArms) = MaxArmBonus

\* compute_ac ran with a shield in each arm, of different bonuses, and added
\* the larger one
C8_Witness ==
    /\ Computed
    /\ ArmBonus("right_arm") > 0 /\ ArmBonus("left_arm") > ArmBonus("right_arm")
    /\ last.ac - compute_ac(WithoutArms) = ArmBonus("left_arm")

(***************************************************************************)
(* Spellcasting.  spell_slots is a dict with the one key "1", modelled as  *)
(* a function on a subset of {"1"}; a pool is the dict of "max" and        *)
(* "current".                                                              *)
(***************************************************************************)
\* char.setdefault(k, default)
SetDefault(c, k, default) == IF k \in DOMAIN c THEN c ELSE SetKey(c, k, default)

\* CLASS_SLOT_RULES.get(cls, {}).get("1", default)
slot_rule(cls, default) == DictGetOr(DictGetOr(CLASS_SLOT_RULES, cls, <<>>), "1", default)

\* the prepared limit one too high
prepared_limit_one_more(c, cls) ==
    IF cls = "Wizard" THEN Max(1, Get(c, "int_mod", 0) + 2)
    ELSE IF cls = "Cleric" THEN Max(1, Get(c, "wis_mod", 0) + 2)
    ELSE 2

\* the prepared limit without its floor of one
prepared_limit_unfloored(c, cls) ==
    IF cls = "Wizard" THEN Get(c, "int_mod", 0) + 1
    ELSE IF cls = "Cleric" THEN Get(c, "wis_mod", 0) + 1
    ELSE 2

\* the prepared limit of the class: max(1, int_mod + 1) for a Wizard,
\* max(1, wis_mod + 1) for a Cleric, 2 otherwise
prepared_limit(c, cls) ==
    IF cls = "Wizard" THEN Max(1, Get(c, "int_mod", 0) + 1)
    ELSE IF cls = "Cleric" THEN Max(1, Get(c, "wis_mod", 0) + 1)
    ELSE 2

initialize_spellcasting(c) ==
    LET cls == class_of(c.race_class)
        c1 == SetDefault(SetDefault(SetDefault(c, "spells_known", <<>>),
                                    "spells_prepared", <<>>), "spell_slots", <<>>)
        max_slots == slot_rule(cls, 0)
        c2 == IF "1" \in DOMAIN c1.spell_slots THEN c1
              ELSE [c1 EXCEPT !.spell_slots =
                       SetKey(@, "1", [max |-> max_slots, current |-> max_slots])]
        c3 == IF c2.spells_known # <<>> THEN c2
              ELSE [c2 EXCEPT !.spells_known = Take(get_class_spell_list(cls, 1), 4)]
        c4 == IF c3.spells_prepared # <<>> THEN c3
              ELSE [c3 EXCEPT !.spells_prepared = Take(c3.spells_known, prepared_limit(c3, cls))]
    IN  IF ~DictHas(CLASS_SPELL_LISTS, cls) THEN c1 ELSE c4

\* a clamp that hands back a full pool
clamp_current_refilling(current, max_slots) == max_slots

\* the clamp without its upper side
clamp_current_from_below(current, max_slots) == Max(0, current)

\* the clamp landing one under the value it should keep
clamp_current_one_short(current, max_slots) == Max(0, Min(current, max_slots) - 1)

\* max(0, min(current, max))
clamp_current(current, max_slots) == Max(0, Min(current, max_slots))

validate_spells_for_class(c) ==
    LET cls == class_of(c.race_class)
        spell_list == get_class_spell_list(cls, 1)
        class_list == {lower_of(spell_list[i]) : i \in 1..Len(spell_list)}
        old_known == Get(c, "spells_known", <<>>)
        kept == SelectSeq(old_known, LAMBDA x : x # "" /\ lower_of(x) \in class_list)
        originals == Len(old_known)
        pool == SelectSeq(spell_list, LAMBDA x : ~InList(x, kept))
        \* the while loop appends pool.pop(0) until known is long enough or
        \* the pool is empty
        known == IF Len(kept) < originals
                 THEN kept \o Take(pool, Max(0, Min(originals, Len(spell_list)) - Len(kept)))
                 ELSE kept
        limit == prepared_limit(c, cls)
        filtered == Take(SelectSeq(Get(c, "spells_prepared", <<>>), LAMBDA x : InList(x, known)),
                         limit)
        prepared == IF filtered = <<>> THEN Take(known, limit) ELSE filtered
        slots == Get(c, "spell_slots", <<>>)
        max_slots == slot_rule(cls, 0)
        new_max == slot_rule(cls, Get(slots["1"], "max", 0))
        new_slots ==
            IF "1" \notin DOMAIN slots
            THEN SetKey(slots, "1", [max |-> max_slots, current |-> max_slots])
            ELSE [slots EXCEPT !["1"] =
                     SetKey(SetKey(@, "max", new_max), "current",
                            clamp_current(Get(@, "current", new_max), new_max))]
    IN  IF class_list = {}
        THEN SetKey(SetKey(SetKey(c, "spells_known", <<>>), "spells_prepared", <<>>),
                    "spell_slots", <<>>)
        ELSE SetKey(SetKey(SetKey(c, "spells_known", known), "spells_prepared", prepared),
                    "spell_slots", new_slots)

\* char.get("spell_slots", {}).get("1")
level1_slots(c) ==
    LET slots == Get(c, "spell_slots", <<>>)
    IN  IF "1" \in DOMAIN slots THEN slots["1"] ELSE None

\* cast_spell that asks for a pool but not for a slot left in it
cast_spell_ignoring_current(c, spell_name) ==
    LET slots == level1_slots(c)
    IN  IF ~InList(spell_name, Get(c, "spells_prepared", <<>>)) \/ slots = None
        THEN [ok |-> FALSE, char |-> c]
        ELSE [ok |-> TRUE, char |-> [c EXCEPT !.spell_slots["1"].current = @ - 1]]

\* cast_spell that spends the slot before it looks at the spell
cast_spell_spending_first(c, spell_name) ==
    LET slots == level1_slots(c)
        has_slot == slots # None /\ slots.current > 0
        spent == IF has_slot THEN [c EXCEPT !.spell_slots["1"].current = @ - 1] ELSE c
    IN  [ok |-> has_slot /\ InList(spell_name, Get(c, "spells_prepared", <<>>)),
         char |-> spent]

\* cast_spell that takes the spent point from the wrong counter
cast_spell_spending_experience(c, spell_name) ==
    LET slots == level1_slots(c)
    IN  IF ~InList(spell_name, Get(c, "spells_prepared", <<>>))
        THEN [ok |-> FALSE, char |-> c]
        ELSE IF slots = None \/ slots.current <= 0
        THEN [ok |-> FALSE, char |-> c]
        ELSE [ok |-> TRUE, char |-> [c EXCEPT !.experience = @ - 1]]

\* The value returned and the character left behind.
cast_spell(c, spell_name) ==
    LET slots == level1_slots(c)
    IN  IF ~InList(spell_name, Get(c, "spells_prepared", <<>>))
        THEN [ok |-> FALSE, char |-> c]
        ELSE IF slots = None \/ slots.current <= 0
        THEN [ok |-> FALSE, char |-> c]
        ELSE [ok |-> TRUE, char |-> [c EXCEPT !.spell_slots["1"].current = @ - 1]]

\* What the Cast button shows for the value cast_spell returned: the error
\* text of the failure, nothing of its own on success.
cast_report(ok) ==
    IF ok THEN None ELSE Some("Cannot cast: not prepared or no slots remaining.")

MaxMod == 3
MaxSlots == 3

\* The spell state a character sheet can arrive with, from the generated
\* sheet or from a saved game, before any engine function has touched it:
\* each key absent or present, lists empty, on the class list, off the list,
\* differently cased or repeated, a pool used up, partly used or overfull.
KnownLists == {<<>>, <<"Magic Missile", "Shield", "Mage Armor">>,
               <<"Cure Wounds", "magic missile", "Fireball", "Magic Missile">>}

PreparedLists == {<<>>, <<"Magic Missile", "Cure Wounds">>,
                  <<"Shield", "Bless", "Shield", "Fireball">>}

SlotTables == {<<>>} \cup {[k \in {"1"} |-> [max |-> m, current |-> n]] :
                              m \in 2..MaxSlots, n \in 0..MaxSlots}

\* the sheet with key k holding v, or without the key
WithKey(c, k, present, v) == IF present THEN SetKey(c, k, v) ELSE c

CastNames == {"Magic Missile", "Shield", "Cure Wounds", "Fireball"}

(***************************************************************************)
(* Spell machine: initialize, validate and cast on one character.          *)
(***************************************************************************)
InitSpell ==
    /\ names = NameTables
    /\ \E cls \in ClassNames : \E int_mod \in (0 - 1)..MaxMod : \E wis_mod \in (0 - 1)..MaxMod :
        \E known \in KnownLists : \E prepared \in PreparedLists : \E slots \in SlotTables :
        \E has_known \in BOOLEAN : \E has_prepared \in BOOLEAN : \E has_slots \in BOOLEAN :
            /\ has_known \/ known = <<>>
            /\ has_prepared \/ prepared = <<>>
            /\ has_slots \/ slots = <<>>
            /\ char = WithKey(WithKey(WithKey(
                          [CharacterSheet(cls, <<"dagger">>)
                               EXCEPT !.int_mod = int_mod, !.wis_mod = wis_mod],
                          "spells_known", has_known, known),
                          "spells_prepared", has_prepared, prepared),
                          "spell_slots", has_slots, slots)
    /\ last = Call("init", "", "", char)

Initialize ==
    /\ char' = initialize_spellcasting(char)
    /\ last' = Call("initialize", "", "", char)
    /\ UNCHANGED names

Validate ==
    /\ char' = validate_spells_for_class(char)
    /\ last' = Call("validate", "", "", char)
    /\ UNCHANGED names

Cast ==
    \E spell_name \in CastNames :
        /\ char' = cast_spell(char, spell_name).char
        /\ last' = [Call("cast", "", "", char)
                        EXCEPT !.spell = spell_name, !.ok = cast_spell(char, spell_name).ok,
                               !.result = cast_report(cast_spell(char, spell_name).ok)]
        /\ UNCHANGED names

NextSpell == Initialize \/ Validate \/ Cast

SpecSpell == InitSpell /\ [][NextSpell]_vars

(***************************************************************************)
(* Properties of cast_spell.                                               *)
(***************************************************************************)
\* the level-1 current slots of a character, 0 where it has no pool
CurrentSlots(c) == IF level1_slots(c) = None THEN 0 ELSE level1_slots(c).current

IsPrepared(c, spell_name) == InList(spell_name, Get(c, "spells_prepared", <<>>))

\* C9: cast succeeds exactly when the spell is in prepared and the level-1
\* current slots are greater than 0, and a successful cast lowers current by
\* exactly 1 and changes nothing else of the character.
C9_CastSucceedsIffPreparedAndSlot ==
    last.op = "cast" =>
        /\ last.ok <=> (IsPrepared(last.pre, last.spell) /\ CurrentSlots(last.pre) > 0)
        /\ last.ok => char = [last.pre EXCEPT !.spell_slots["1"].current = @ - 1]

\* a prepared spell was cast with its last slot
C9_Witness ==
    /\ last.op = "cast" /\ last.ok
    /\ CurrentSlots(last.pre) = 1 /\ CurrentSlots(char) = 0
    /\ char.spells_prepared = last.pre.spells_prepared

\* C10: a cast that fails (spell not prepared, no level-1 slot left, or no
\* slot pool at all) leaves the whole character as it was before the call.
C10_FailedCastChangesNothing ==
    (last.op = "cast" /\ ~last.ok) => char = last.pre

\* a cast failed on a character that holds slots but has not prepared the
\* spell, and the slots are as they were
C10_Witness ==
    /\ last.op = "cast" /\ ~last.ok
    /\ ~IsPrepared(last.pre, last.spell)
    /\ CurrentSlots(last.pre) > 0
    /\ CurrentSlots(char) = CurrentSlots(last.pre)

(***************************************************************************)
(* Sheet machine: the spell state of a character as the program keeps it.  *)
(* The creation handler and the staged load pass every sheet through       *)
(* initialize and validate before anything else is done with it, and the   *)
(* character panel does so again before it shows the Cast button; so here  *)
(* a sheet that has not been validated yet (last.op = "init") can only be  *)
(* validated, and initialize and cast act on validated sheets.             *)
(***************************************************************************)
initialize_or_validate_spells(c) == validate_spells_for_class(initialize_spellcasting(c))

Validated == last.op # "init"

InitializeOrValidate ==
    /\ char' = initialize_or_validate_spells(char)
    /\ last' = Call("initialize_or_validate", "", "", char)
    /\ UNCHANGED names

SheetInitialize == Validated /\ Initialize

SheetCast == Validated /\ Cast

NextSheet == InitializeOrValidate \/ Validate \/ SheetInitialize \/ SheetCast

SpecSheet == InitSpell /\ [][NextSheet]_vars

(***************************************************************************)
(* Properties of the spell state.                                          *)
(***************************************************************************)
\* 0 <= current <= max in the level-1 pool, where there is one
SlotsInRange(c) ==
    level1_slots(c) = None
        \/ (0 <= level1_slots(c).current /\ level1_slots(c).current <= level1_slots(c).max)

\* C11: after any sequence of cast and validate calls on a character (with
\* initialize among them), spell_slots['1'].current is within [0, max].
C11_CurrentWithinMax == Validated => SlotsInRange(char)

\* a sheet that arrived with more current slots than its maximum was
\* validated, and holds its maximum now
C11_Witness ==
    /\ last.op \in {"validate", "initialize_or_validate"}
    /\ level1_slots(last.pre) # None
    /\ level1_slots(last.pre).current > level1_slots(char).max
    /\ level1_slots(char).current = level1_slots(char).max

\* the spells of a sheet's list, [] where the key is missing
KnownOf(c) == Get(c, "spells_known", <<>>)

PreparedOf(c) == Get(c, "spells_prepared", <<>>)

\* the level-1 spell list of the character's canonical class
ClassListOf(c) == get_class_spell_list(class_of(c.race_class), 1)

\* C12: after validate, and after any later sequence of initialize, validate
\* and cast, every prepared spell is in known and every known spell is on the
\* spell list of the character's canonical class.
C12_PreparedInKnownInClassList ==
    Validated =>
        /\ \A i \in 1..Len(PreparedOf(char)) : InList(PreparedOf(char)[i], KnownOf(char))
        /\ \A i \in 1..Len(KnownOf(char)) : InList(KnownOf(char)[i], ClassListOf(char))

\* C12, up to letter case: every prepared spell is in known, and every known
\* spell is, lowercased, the lowercased name of a spell of the class list.
C12_InClassListUpToCase ==
    Validated =>
        /\ \A i \in 1..Len(PreparedOf(char)) : InList(PreparedOf(char)[i], KnownOf(char))
        /\ \A i \in 1..Len(KnownOf(char)) :
               \E j \in 1..Len(ClassListOf(char)) :
                   lower_of(KnownOf(char)[i]) = lower_of(ClassListOf(char)[j])

\* validate ran on a sheet with an off-list known spell and a prepared spell
\* that was not known, and left a caster with known and prepared spells
C12_Witness ==
    /\ last.op = "validate"
    /\ \E i \in 1..Len(KnownOf(last.pre)) : ~InList(KnownOf(last.pre)[i], ClassListOf(char))
    /\ \E i \in 1..Len(PreparedOf(last.pre)) :
           ~InList(PreparedOf(last.pre)[i], KnownOf(last.pre))
    /\ KnownOf(char) # <<>> /\ PreparedOf(char) # <<>>

\* C13: validate is idempotent: on the sheet a validate has left, a second
\* validate changes nothing (known, prepared and spell_slots included).
C13_ValidateIdempotent ==
    last.op = "validate" => validate_spells_for_class(char) = char

\* validate replaced an off-list known spell, dropped a prepared spell and
\* clamped the slots of the sheet it was given
C13_Witness ==
    /\ last.op = "validate"
    /\ KnownOf(char) # KnownOf(last.pre) /\ KnownOf(char) # <<>>
    /\ PreparedOf(char) # PreparedOf(last.pre)
    /\ CurrentSlots(char) < CurrentSlots(last.pre)
    /\ validate_spells_for_class(char) = char

(***************************************************************************)
(* Canonicalizer machine: a generated sheet with one item name, and the    *)
(* canonicalizer called on the names of its inventory.                     *)
(***************************************************************************)
InitCanon ==
    /\ names = CanonTables
    /\ char \in {CharacterSheet("Fighter", <<n>>) : n \in CanonNames}
    /\ last = Call("init", "", "", char)

Canonicalize ==
    \E i \in 1..Len(char.inventory) :
        /\ last' = [Call("canonicalize", "", char.inventory[i], char)
                        EXCEPT !.result = canon_of(char.inventory[i])]
        /\ UNCHANGED <<char, names>>

NextCanon == Canonicalize

SpecCanon == InitCanon /\ [][NextCanon]_vars


\* C14: an input made of stopwords (quality adjectives, the enchantment marker
\* "+1") followed by an alias or a catalog key canonicalizes to that catalog
\* key; 'rusty +1 Long Sword' gives 'longsword'.
C14_StopwordsThenAliasResolve ==
    last.op = "canonicalize" =>
        \A cs \in StopwordCases :
            last.item = cs.name => last.result = Some(cs.key)

\* The documented example is canonicalized and nothing is found for it.
C14_Witness ==
    /\ last.op = "canonicalize"
    /\ last.item = "rusty +1 Long Sword"
    /\ last.result = None


\* C15: for every input (empty, blank, punctuation only, unknown words, names
\* with stopwords) canonicalize returns either None or a key of the item
\* catalog, and never any other value.
C15_NoneOrCatalogKey ==
    last.op = "canonicalize" =>
        \/ last.result = None
        \/ /\ Len(last.result) = 1
           /\ DictHas(SRD_ITEMS, last.result[1])

\* Both outcomes happen on degenerate inputs: nothing for the empty, the
\* punctuation-only and the unknown name, a key for a name with extra words.
C15_Witness ==
    /\ last.op = "canonicalize"
    /\ \/ last.item \in {"", "!!!", "xyzzy"} /\ last.result = None
       \/ last.item = "Ringed Greataxe" /\ last.result = Some("greataxe")


\* The catalog keys (by position) that the fuzzy fallback may return for an
\* input: the key has tokens and all of them are among the input's tokens.
Qualifying(name) ==
    {i \in 1..Len(SRD_ITEMS) :
        /\ tokens_of(SRD_ITEMS[i][1]) # {}
        /\ tokens_of(SRD_ITEMS[i][1]) \subseteq tokens_of(name)}

\* The number of tokens catalog key number i shares with the input.
Overlap(name, i) == Cardinality(tokens_of(SRD_ITEMS[i][1]) \cap tokens_of(name))

\* The call just made reached the fuzzy fallback.
FuzzyCase ==
    /\ last.op = "canonicalize"
    /\ last.item # ""
    /\ direct_of(last.item) = None

\* C16 (as stated): when no exact, alias or normalized match exists and some
\* key qualifies, the result is a qualifying key and no other qualifying key
\* shares more tokens with the input.
C16_MostSharedTokens ==
    FuzzyCase /\ Qualifying(last.item) # {} =>
        \E i \in Qualifying(last.item) :
            /\ last.result = Some(SRD_ITEMS[i][1])
            /\ \A j \in Qualifying(last.item) :
                   Overlap(last.item, j) <= Overlap(last.item, i)

\* C16 (amended): when no exact, alias or normalized match exists, the result
\* is None exactly when no key qualifies; otherwise it is the qualifying key
\* whose tokens joined by single spaces make the longest string, and among
\* keys of equal joined length the one that comes first in the catalog.
C16_LongestJoinedTokens ==
    FuzzyCase =>
        IF Qualifying(last.item) = {} THEN last.result = None
        ELSE \E i \in Qualifying(last.item) :
                /\ last.result = Some(SRD_ITEMS[i][1])
                /\ \A j \in Qualifying(last.item) :
                       /\ joined_of(SRD_ITEMS[j][1]) <= joined_of(SRD_ITEMS[i][1])
                       /\ joined_of(SRD_ITEMS[j][1]) = joined_of(SRD_ITEMS[i][1]) => i <= j

\* A fuzzy call with several qualifying keys, where a two-token key loses to
\* a one-token key of the same joined length.
C16_Witness ==
    /\ FuzzyCase
    /\ last.item = "half plate greatsword"
    /\ Cardinality(Qualifying(last.item)) >= 2
    /\ last.result = Some("greatsword")


----------------------------------------------------------------------------
\* Auto-equip on inventories that hold several armors.

\* Longest inventory drawn.
MaxArmory == 3

\* Item names the inventories are drawn from: armors of each weight and a weapon.
ArmorStock == {"Leather Armor", "Chain Shirt", "Chain Mail", "Plate", "dagger"}

\* Inventories of 2..MaxArmory distinct items, in every order.
Armories ==
    {inv \in UNION {[1..n -> ArmorStock] : n \in 2..MaxArmory} :
        \A i, j \in 1..Len(inv) : i # j => inv[i] # inv[j]}

InitArmory ==
    /\ names = NameTables
    /\ char \in {ensure_equipped_slots(CharacterSheet("Fighter", inv)) : inv \in Armories}
    /\ last = Call("init", "", "", char)

NextArmory == AutoEquip \/ Unequip

SpecArmory == InitArmory /\ [][NextArmory]_vars

\* Positions of the inventory that hold an armor of the catalog.
ArmorsIn(inv) == {i \in 1..Len(inv) : TypeIs(stats_of(inv[i]), "armor")}

\* C17: when the body slot is empty and the inventory holds several armors,
\* auto_equip_defaults puts the armor with the highest base AC in the body
\* slot, whatever the order of the inventory.
C17_BestArmorEquipped ==
    (/\ last.op = "auto_equip"
     /\ last.pre.equipped["body"] = None
     /\ Cardinality(ArmorsIn(last.pre.inventory)) >= 2)
    => /\ char.equipped["body"] # None
       /\ TypeIs(char.equipped["body"].stats, "armor")
       /\ \A i \in ArmorsIn(last.pre.inventory) :
              stats_of(last.pre.inventory[i]).armor.base
                  <= char.equipped["body"].stats.armor.base

\* Leather armor listed before plate: auto-equip dresses the character in the
\* leather armor.
C17_Witness ==
    /\ last.op = "auto_equip"
    /\ last.pre.equipped["body"] = None
    /\ last.pre.inventory = <<"Leather Armor", "Plate">>
    /\ char.equipped["body"] # None
    /\ char.equipped["body"].item = "Leather Armor"


----------------------------------------------------------------------------
\* Seeding by initialize_spellcasting.

\* The call just made was initialize on a caster (Wizard or Cleric).
InitializedCaster ==
    /\ last.op = "initialize"
    /\ DictHas(CLASS_SPELL_LISTS, class_of(last.pre.race_class))

\* The ability that limits preparation: Intelligence for a Wizard, Wisdom for
\* a Cleric.
RelevantMod(c) ==
    IF class_of(c.race_class) = "Wizard" THEN c.int_mod ELSE c.wis_mod

\* The level-1 pool of a sheet, None when the sheet has none.
PoolOf(c) ==
    IF "spell_slots" \in DOMAIN c /\ "1" \in DOMAIN c.spell_slots
    THEN Some(c.spell_slots["1"]) ELSE None

\* C18: initialize on a caster seeds an empty known list with at most 4
\* spells from the head of the class list, an empty prepared list with the
\* first min(|known|, limit) known spells where limit = max(1, mod + 1) (Int
\* for Wizard, Wis for Cleric), and a missing level-1 pool with current = max
\* = the class rule; non-empty known, non-empty prepared and an existing pool
\* stay as they were, and so does every other field.
C18_InitializeSeeds ==
    InitializedCaster =>
        LET pre == last.pre
            limit == Max(1, RelevantMod(pre) + 1)
            rule == DictGet(DictGet(CLASS_SLOT_RULES, class_of(pre.race_class)), "1")
        IN  /\ IF KnownOf(pre) = <<>>
               THEN /\ Len(KnownOf(char)) <= 4
                    /\ KnownOf(char) = Take(ClassListOf(pre), 4)
               ELSE KnownOf(char) = KnownOf(pre)
            /\ IF PreparedOf(pre) = <<>>
               THEN PreparedOf(char) =
                        SubSeq(KnownOf(char), 1, Min(Len(KnownOf(char)), limit))
               ELSE PreparedOf(char) = PreparedOf(pre)
            /\ IF PoolOf(pre) = None
               THEN PoolOf(char) = Some([max |-> rule, current |-> rule])
               ELSE PoolOf(char) = PoolOf(pre)
            /\ \A k \in DOMAIN pre \ {"spells_known", "spells_prepared", "spell_slots"} :
                   k \in DOMAIN char /\ char[k] = pre[k]

\* All the claim's cases: a caster with no spell state at all is seeded (with
\* the floor of the limit at work), a short known list caps the prepared
\* spells below the limit, and existing state is left alone.
C18_SeededFromNothing ==
    /\ InitializedCaster
    /\ DOMAIN last.pre \cap {"spells_known", "spells_prepared", "spell_slots"} = {}
    /\ RelevantMod(last.pre) = 0 - 1
    /\ Len(KnownOf(char)) = 4 /\ Len(PreparedOf(char)) = 1
    /\ PoolOf(char) = Some([max |-> 2, current |-> 2])

C18_KnownShorterThanLimit ==
    /\ InitializedCaster
    /\ KnownOf(last.pre) # <<>> /\ PreparedOf(last.pre) = <<>>
    /\ Len(KnownOf(last.pre)) < Max(1, RelevantMod(last.pre) + 1)
    /\ PreparedOf(char) = KnownOf(char)

C18_ExistingKept ==
    /\ InitializedCaster
    /\ KnownOf(last.pre) # <<>> /\ PreparedOf(last.pre) # <<>>
    /\ PoolOf(last.pre) # None /\ PoolOf(last.pre)[1].current = 0

C18_Witness ==
    \/ C18_SeededFromNothing
    \/ C18_KnownShorterThanLimit
    \/ C18_ExistingKept


----------------------------------------------------------------------------
\* What the caller of cast learns.

\* Everything the caller gets back from a cast of spell_name on sheet c: the
\* returned value and the text the button shows.
CastOutcome(c, spell_name) ==
    [ok |-> cast_spell(c, spell_name).ok,
     result |-> cast_report(cast_spell(c, spell_name).ok)]

\* The two failure cases of cast on a sheet.
NotPrepared(c, spell_name) == ~InList(spell_name, PreparedOf(c))

NoSlots(c, spell_name) ==
    /\ InList(spell_name, PreparedOf(c))
    /\ (level1_slots(c) = None \/ level1_slots(c).current <= 0)

\* C19: a cast that fails because the spell is not prepared gives the caller
\* a result different from the one a cast failing for lack of slots gives on
\* the same sheet.
C19_FailuresToldApart ==
    (last.op = "cast" /\ NotPrepared(last.pre, last.spell)) =>
        \A other \in CastNames :
            NoSlots(last.pre, other) =>
                CastOutcome(last.pre, other) # [ok |-> last.ok, result |-> last.result]

\* An unprepared spell was cast on a sheet that has a prepared spell and no
\* slot left: both casts come back as the same False with the same text.
C19_Witness ==
    /\ last.op = "cast" /\ NotPrepared(last.pre, last.spell)
    /\ \E other \in CastNames :
           /\ NoSlots(last.pre, other)
           /\ CastOutcome(last.pre, other) = [ok |-> last.ok, result |-> last.result]


----------------------------------------------------------------------------
(***************************************************************************)
(* Character creation: the sheet the generator returned, then the handler  *)
(* that stores it (name, race, default modifiers, canonical class, race    *)
(* modifiers, equipment, spells).                                          *)
(***************************************************************************)
RACE_MODIFIERS == <<
    <<"Human", << <<"str_mod", 0>>, <<"dex_mod", 0>>, <<"con_mod", 0>>, <<"int_mod", 0>>, <<"wis_mod", 0>>, <<"cha_mod", 0>> >> >>,
    <<"Elf", << <<"dex_mod", 1>>, <<"int_mod", 1>>, <<"con_mod", 0 - 1>> >> >>,
    <<"Dwarf", << <<"con_mod", 2>>, <<"cha_mod", 0 - 1>> >> >>,
    <<"Halfling", << <<"dex_mod", 1>>, <<"str_mod", 0 - 1>> >> >>,
    <<"Orc", << <<"str_mod", 2>>, <<"int_mod", 0 - 1>>, <<"cha_mod", 0 - 1>> >> >>,
    <<"Tiefling", << <<"cha_mod", 1>>, <<"int_mod", 1>>, <<"wis_mod", 0 - 1>> >> >>,
    <<"Mutant", << <<"con_mod", 1>>, <<"str_mod", 1>>, <<"cha_mod", 0 - 1>> >> >>,
    <<"Android", << <<"int_mod", 2>>, <<"wis_mod", 0 - 1>> >> >>,
    <<"Cyborg", << <<"str_mod", 1>>, <<"con_mod", 1>>, <<"dex_mod", 0 - 1>> >> >>,
    <<"Beastkin", << <<"dex_mod", 1>>, <<"wis_mod", 1>>, <<"int_mod", 0 - 1>> >> >>,
    <<"Ghoul", << <<"con_mod", 1>>, <<"cha_mod", 0 - 2>> >> >>,
    <<"Augmented", << <<"dex_mod", 1>>, <<"int_mod", 1>>, <<"wis_mod", 0 - 1>> >> >>,
    <<"Synth", << <<"int_mod", 2>>, <<"cha_mod", 0 - 1>> >> >>,
    <<"Clone", << <<"wis_mod", 1>>, <<"cha_mod", 0 - 1>> >> >>,
    <<"Fae-touched", << <<"cha_mod", 1>>, <<"wis_mod", 1>>, <<"con_mod", 0 - 1>> >> >>,
    <<"Vampire", << <<"cha_mod", 1>>, <<"str_mod", 1>>, <<"con_mod", 0 - 1>> >> >>,
    <<"Werewolf", << <<"str_mod", 2>>, <<"int_mod", 0 - 1>> >> >>,
    <<"Mageborn", << <<"int_mod", 2>>, <<"str_mod", 0 - 1>> >> >>,
    <<"Occultist", << <<"int_mod", 1>>, <<"wis_mod", 1>>, <<"con_mod", 0 - 1>> >> >>,
    <<"Touched", << <<"wis_mod", 2>>, <<"cha_mod", 0 - 1>> >> >>,
    <<"Fragmented", << <<"int_mod", 1>>, <<"cha_mod", 0 - 1>> >> >> >>

Races == ToSet(DictKeys(RACE_MODIFIERS))

ModKeys == {"str_mod", "dex_mod", "con_mod", "int_mod", "wis_mod", "cha_mod"}

\* char_data[k] = char_data.get(k, 0) + delta for every entry of the race
apply_race_modifiers(char_data, race) ==
    LET mods == DictGetOr(RACE_MODIFIERS, race, <<>>)
    IN  [k \in DOMAIN char_data \cup ToSet(DictKeys(mods)) |->
            IF DictHas(mods, k) THEN Get(char_data, k, 0) + DictGet(mods, k)
            ELSE char_data[k]]

\* An entry with its own stats and summary where it has them, the catalog's
\* where it has none.  Every entry of the model carries a summary
\* (summarize_item never returns an empty text), so the summary is kept.
normalize_equipped_entry(entry) ==
    [item |-> entry.item,
     stats |-> IF entry.stats # None THEN entry.stats ELSE stats_of(entry.item),
     summary |-> IF entry.summary # "" THEN entry.summary ELSE entry_of(entry.item).summary]

normalize_all_equipped(c) ==
    LET c1 == ensure_equipped_slots(c)
    IN  [c1 EXCEPT !.equipped =
            [s \in DOMAIN @ |-> IF @[s] # None THEN normalize_equipped_entry(@[s]) ELSE @[s]]]

\* The handler from the parsed reply on: lines 698-719.
create_new_character(char_data, player_name, race) ==
    LET c1 == SetKey(SetKey(char_data, "name", player_name), "race", race)
        c2 == SetDefault(SetDefault(SetDefault(SetDefault(SetDefault(SetDefault(c1,
                  "str_mod", 0), "dex_mod", 0), "con_mod", 0), "int_mod", 0),
                  "wis_mod", 0), "cha_mod", 0)
        c3 == [c2 EXCEPT !.race_class = class_of(c2.race_class)]
        c4 == apply_race_modifiers(c3, race)
        c5 == normalize_all_equipped(auto_equip_defaults(ensure_equipped_slots(c4)))
    IN  initialize_or_validate_spells(c5)

\* The range the creation prompt asks the generator for ("attribute modifiers
\* between -1 and +3"), and the values drawn from it: its ends and zero.
DesignRange == (0 - 1)..3

GeneratedMods == {0 - 1, 0, 3}

\* Classes of the generated sheets (fixed points of canonical_class).
CreatedClasses == {"Wizard", "Fighter"}

\* The parsed reply of the generator: a sheet of the CharacterSheet schema.
InitCreate ==
    /\ names = NameTables
    /\ \E cls \in CreatedClasses : \E m \in [ModKeys -> GeneratedMods] :
           char = [k \in DOMAIN CharacterSheet(cls, <<"Greatsword", "Shield", "dagger", "Plate">>) |->
                      IF k \in ModKeys THEN m[k]
                      ELSE CharacterSheet(cls, <<"Greatsword", "Shield", "dagger", "Plate">>)[k]]
    /\ last = Call("init", "", "", char)

\* create_new_character_handler for a name that is not yet in the party (the
\* handler returns at once for a name it has stored) and any race of the table.
CreateNewCharacter ==
    /\ last.op = "init"
    /\ \E race \in Races :
           /\ char' = create_new_character(char, char.name, race)
           /\ last' = Call("create", "", "", char)
    /\ UNCHANGED names

NextCreate == CreateNewCharacter

SpecCreate == InitCreate /\ [][NextCreate]_vars

\* C20: after creation (generated sheet plus race modifiers) each of the six
\* ability modifiers of the stored character lies in the design range -1..+3.
C20_ModifiersInDesignRange ==
    last.op = "create" => \A k \in ModKeys : char[k] \in DesignRange

\* A generated Strength modifier of +3 on an Orc (+2) is stored as +5.
C20_Witness ==
    /\ last.op = "create"
    /\ \A k \in ModKeys : last.pre[k] \in DesignRange
    /\ char.race = "Orc"
    /\ last.pre.str_mod = 3 /\ char.str_mod = 5


----------------------------------------------------------------------------
(***************************************************************************)
(* Game machine: a character as the creation handler stored it, then the   *)
(* engine's operations on it in any order: equip, unequip, auto-equip,     *)
(* initialize, validate, cast, the normalization of the character panel,   *)
(* and saving the game and loading it back.                                *)
(***************************************************************************)

\* json.loads(json.dumps(c)) on a character: dicts come back as dicts with
\* their string keys, lists as lists, numbers, strings and None as
\* themselves; an entry shared by both arms comes back as two equal entries.
json_round_trip(c) ==
    [k \in DOMAIN c |->
        IF k = "equipped"
        THEN [s \in DOMAIN c[k] |->
                 IF c[k][s] = None THEN None
                 ELSE [f \in DOMAIN c[k][s] |-> c[k][s][f]]]
        ELSE IF k = "spell_slots"
        THEN [lvl \in DOMAIN c[k] |-> [f \in DOMAIN c[k][lvl] |-> c[k][lvl][f]]]
        ELSE c[k]]

\* A load that also fills the empty slots, as start_adventure does.
load_character_auto_equipping(v) ==
    LET v1 == [v EXCEPT !.race_class = class_of(v.race_class)]
    IN  initialize_or_validate_spells(
            normalize_all_equipped(auto_equip_defaults(ensure_equipped_slots(v1))))

\* The staged load on one character of the file: lines 809-814.
load_character(v) ==
    LET v1 == [v EXCEPT !.race_class = class_of(v.race_class)]
    IN  initialize_or_validate_spells(normalize_all_equipped(ensure_equipped_slots(v1)))

\* save_game followed by load_game and the staged load.
save_and_load(c) == load_character(json_round_trip(c))

\* The character panel's refresh before it shows the sheet: lines 939-944.
refresh_sheet(c) ==
    LET c1 == normalize_all_equipped(ensure_equipped_slots(c))
    IN  initialize_or_validate_spells([c1 EXCEPT !.race_class = class_of(c1.race_class)])

\* The experience a generated sheet starts with.
StartExperience == 2

GameRaces == {"Elf"}

InitGame ==
    /\ names = NameTables
    /\ \E cls \in CreatedClasses : \E inv \in Inventories : \E race \in GameRaces :
           char = create_new_character(
                      [CharacterSheet(cls, inv) EXCEPT !.experience = StartExperience],
                      "Aria", race)
    /\ last = Call("create", "", "", char)

SaveLoad ==
    /\ char' = save_and_load(char)
    /\ last' = Call("save_load", "", "", char)
    /\ UNCHANGED names

Refresh ==
    /\ char' = refresh_sheet(char)
    /\ last' = Call("refresh", "", "", char)
    /\ UNCHANGED names

NextGame ==
    \/ Equip \/ Unequip \/ AutoEquip
    \/ Initialize \/ Validate \/ Cast
    \/ Refresh \/ SaveLoad

SpecGame == InitGame /\ [][NextGame]_vars


\* C21: saving the game and loading it back gives the character it was, field
\* by field (slots, a two-handed weapon in both arms, known and prepared
\* spells, partly used slots, HP, experience), on every state the engine's
\* operations produce.
C21_SaveLoadRoundTrip ==
    last.op = "save_load" => char = last.pre

\* A caster with a two-handed weapon in both arms and one of two slots spent
\* is saved and loaded.
C21_Witness ==
    /\ last.op = "save_load"
    /\ last.pre.equipped["right_arm"] # None
    /\ last.pre.equipped["right_arm"].item = "Greatsword"
    /\ last.pre.equipped["left_arm"] = last.pre.equipped["right_arm"]
    /\ level1_slots(last.pre) = [max |-> 2, current |-> 1]
    /\ last.pre.equipped["body"] = None
    /\ char.equipped["left_arm"].item = "Greatsword"


\* C22: no engine operation on a character (equip, unequip, auto-equip,
\* initialize, validate, cast, normalization, save and load) lowers its
\* experience.
C22_ExperienceNeverDecreases ==
    [][char'.experience >= char.experience]_vars

\* A character with experience has gone through a successful cast, and
\* another through a normalization, with its experience intact.
C22_Witness ==
    /\ char.experience = StartExperience
    /\ last.pre.experience = StartExperience
    /\ \/ last.op = "cast" /\ last.ok
       \/ last.op = "refresh" /\ last.pre.equipped["right_arm"] # None


----------------------------------------------------------------------------
(***************************************************************************)
(* Death saves of one combatant (section 4.4 of the specification; the     *)
(* application's source has no combat code).  The variable char holds the  *)
(* combatant.                                                              *)
(***************************************************************************)

\* A combatant projected at the start of an encounter.
Combatant(name, is_player, current_hp) ==
    [name |-> name, is_player |-> is_player, current_hp |-> current_hp,
     death_saves |-> [success |-> 0, fail |-> 0], dead |-> FALSE]

\* death_save is callable only for a downed living player; three successes
\* stabilize the combatant and no further save is made.
may_roll_death_save(cb) ==
    /\ cb.current_hp = 0 /\ cb.is_player /\ ~cb.dead
    /\ cb.death_saves.success < 3

\* a death save that does not let failures bring death
death_save_never_dying(cb, roll) ==
    IF ~may_roll_death_save(cb) THEN cb
    ELSE IF roll = 20
    THEN [cb EXCEPT !.current_hp = 1, !.death_saves = [success |-> 0, fail |-> 0]]
    ELSE IF roll >= 10
    THEN [cb EXCEPT !.death_saves.success = @ + 1]
    ELSE [cb EXCEPT !.death_saves.fail = @ + (IF roll = 1 THEN 2 ELSE 1)]

\* death_save with the d20 roll given: 1 two failures, 20 back up with 1 HP
\* and both counters reset, 10-19 one success, 2-9 one failure; three
\* failures set dead.  A call that is not allowed changes nothing.
death_save(cb, roll) ==
    IF ~may_roll_death_save(cb) THEN cb
    ELSE IF roll = 20
    THEN [cb EXCEPT !.current_hp = 1, !.death_saves = [success |-> 0, fail |-> 0]]
    ELSE IF roll >= 10
    THEN [cb EXCEPT !.death_saves.success = @ + 1]
    ELSE LET fails == cb.death_saves.fail + (IF roll = 1 THEN 2 ELSE 1)
         IN  [cb EXCEPT !.death_saves.fail = fails, !.dead = (fails >= 3)]

\* The faces of the d20.
D20 == 1..20

InitDeath ==
    /\ names = NameTables
    /\ char \in {Combatant("Aria", TRUE, 0), Combatant("Aria", TRUE, 7),
                 Combatant("Goblin", FALSE, 0)}
    /\ last = Call("init", "", "", char)

\* One death-save attempt; ac records the roll, ok whether it was allowed.
DeathSave ==
    \E roll \in D20 :
        /\ char' = death_save(char, roll)
        /\ last' = [Call("death_save", "", "", char)
                        EXCEPT !.ac = roll, !.ok = may_roll_death_save(char)]
        /\ UNCHANGED names

NextDeath == DeathSave

SpecDeath == InitDeath /\ [][NextDeath]_vars

\* C23: for a downed player combatant a roll of 1 adds two failures and a
\* roll of 2-9 one failure to those already counted; with three failures
\* dead is true; every attempt on a dead combatant is rejected and leaves
\* it unchanged.
C23_DeathSaveFailures ==
    last.op = "death_save" =>
        /\ (last.ok /\ last.ac = 1) =>
               char.death_saves.fail = last.pre.death_saves.fail + 2
        /\ (last.ok /\ last.ac \in 2..9) =>
               char.death_saves.fail = last.pre.death_saves.fail + 1
        /\ char.death_saves.fail >= 3 => char.dead
        /\ char.dead => char.death_saves.fail >= 3
        /\ last.pre.dead => (~last.ok /\ char = last.pre)

\* The sequence 1, 2, 20 of the specification: two failures, then a third and
\* death, then the 20 is rejected.
C23_Witness ==
    /\ last.op = "death_save" /\ last.ac = 20 /\ ~last.ok
    /\ last.pre.dead /\ last.pre.death_saves = [success |-> 0, fail |-> 3]
    /\ char = last.pre /\ char.current_hp = 0


----------------------------------------------------------------------------
(***************************************************************************)
(* Encounter teardown (section 4.4 of the specification; the application's *)
(* source has no encounter code).  The variable char holds the roster of   *)
(* characters and the encounter.                                           *)
(***************************************************************************)

PlayerNames == {"Aria", "Bram", "Cato"}

\* The fixed XP values of the bestiary's monsters.
MonsterXPs == {25, 50}

\* A monster combatant with the XP of its template.
Monster(xp, dead) ==
    [name |-> "Goblin", is_player |-> FALSE, current_hp |-> IF dead THEN 0 ELSE 5,
     death_saves |-> [success |-> 0, fail |-> 0], dead |-> dead, xp |-> xp]

\* The player combatants of an encounter that count as living.
LivingPlayers(enc) == {p \in DOMAIN enc.players : ~enc.players[p].dead}

\* The XP of the dead monsters from monster number i on.
RECURSIVE dead_monster_xp(_, _)
dead_monster_xp(monsters, i) ==
    IF i > Len(monsters) THEN 0
    ELSE (IF monsters[i].dead THEN monsters[i].xp ELSE 0) + dead_monster_xp(monsters, i + 1)

\* a teardown that rounds the share up
end_encounter_rounding_up(s) ==
    IF ~s.encounter.active THEN s
    ELSE LET enc == s.encounter
             total == dead_monster_xp(enc.monsters, 1)
             living == LivingPlayers(enc)
             share == IF living = {} THEN 0
                      ELSE (total + Cardinality(living) - 1) \div Cardinality(living)
         IN  [characters |->
                 [p \in DOMAIN s.characters |->
                     IF p \in living
                     THEN [s.characters[p] EXCEPT !.experience = @ + share,
                                                  !.current_hp = enc.players[p].current_hp]
                     ELSE s.characters[p]],
              encounter |-> [enc EXCEPT !.active = FALSE]]

\* end(encounter, characters): the XP of the dead monsters is split by integer
\* division among the living player combatants and added to their
\* characters, whose current_hp is written back; the encounter is Inactive.
end_encounter(s) ==
    IF ~s.encounter.active THEN s
    ELSE LET enc == s.encounter
             total == dead_monster_xp(enc.monsters, 1)
             living == LivingPlayers(enc)
             share == IF living = {} THEN 0 ELSE total \div Cardinality(living)
         IN  [characters |->
                 [p \in DOMAIN s.characters |->
                     IF p \in living
                     THEN [s.characters[p] EXCEPT !.experience = @ + share,
                                                  !.current_hp = enc.players[p].current_hp]
                     ELSE s.characters[p]],
              encounter |-> [enc EXCEPT !.active = FALSE]]

\* What a player combatant can be when the encounter ends: up, downed, dead.
PlayerCombatants(p) ==
    {Combatant(p, TRUE, 9), Combatant(p, TRUE, 0),
     [Combatant(p, TRUE, 0) EXCEPT !.dead = TRUE, !.death_saves.fail = 3]}

InitEncounter ==
    /\ names = NameTables
    /\ \E players \in [PlayerNames -> UNION {PlayerCombatants(p) : p \in PlayerNames}] :
       \E monsters \in [1..2 -> {Monster(xp, d) : xp \in MonsterXPs, d \in BOOLEAN}] :
           /\ \A p \in PlayerNames : players[p] \in PlayerCombatants(p)
           /\ char = [characters |->
                         [p \in PlayerNames |->
                             [CharacterSheet("Fighter", <<"dagger">>) EXCEPT !.name = p]],
                      encounter |-> [active |-> TRUE, players |-> players, monsters |-> monsters]]
    /\ last = Call("init", "", "", char)

EndEncounter ==
    /\ char' = end_encounter(char)
    /\ last' = Call("end", "", "", char)
    /\ UNCHANGED names

NextEncounter == EndEncounter

SpecEncounter == InitEncounter /\ [][NextEncounter]_vars

\* The XP the teardown had to share, and the players it had to share it among.
EndedTotal == dead_monster_xp(last.pre.encounter.monsters, 1)

EndedLiving == LivingPlayers(last.pre.encounter)

\* C24: end(encounter) adds floor(total XP of dead monsters / number of
\* living player combatants) to the experience of each surviving character,
\* discards the remainder, and gives nothing to players who are not living.
C24_EvenSplitRemainderDiscarded ==
    (last.op = "end" /\ last.pre.encounter.active) =>
        \E share \in 0..EndedTotal :
            /\ EndedLiving # {} =>
                   /\ share * Cardinality(EndedLiving) <= EndedTotal
                   /\ EndedTotal < (share + 1) * Cardinality(EndedLiving)
            /\ \A p \in PlayerNames :
                   char.characters[p].experience =
                       last.pre.characters[p].experience
                           + (IF p \in EndedLiving THEN share ELSE 0)

\* 100 XP among three living players: 33 each, 1 discarded.
C24_Witness ==
    /\ last.op = "end" /\ last.pre.encounter.active
    /\ EndedTotal = 100 /\ Cardinality(EndedLiving) = 3
    /\ \A p \in PlayerNames :
           char.characters[p].experience = last.pre.characters[p].experience + 33


----------------------------------------------------------------------------
\* C25: after validate on a Wizard or Cleric the number of prepared spells is
\* at most max(1, ability_mod + 1) (Int for Wizard, Wis for Cleric),
\* whatever the modifier and the prepared list before.
C25_PreparedWithinLimit ==
    (/\ last.op = "validate"
     /\ DictHas(CLASS_SPELL_LISTS, class_of(last.pre.race_class)))
    => Len(PreparedOf(char)) <= Max(1, RelevantMod(last.pre) + 1)

\* Validate cut a prepared list down: more of its spells were known than the
\* limit allows.
C25_Witness ==
    /\ last.op = "validate"
    /\ DictHas(CLASS_SPELL_LISTS, class_of(last.pre.race_class))
    /\ Len(PreparedOf(last.pre)) > Max(1, RelevantMod(last.pre) + 1)
    /\ Len(PreparedOf(char)) = Max(1, RelevantMod(last.pre) + 1)
    /\ PreparedOf(char) = SubSeq(SelectSeq(PreparedOf(last.pre),
                                           LAMBDA x : InList(x, KnownOf(char))),
                                 1, Len(PreparedOf(char)))
    /\ Len(SelectSeq(PreparedOf(last.pre), LAMBDA x : InList(x, KnownOf(char))))
           > Len(PreparedOf(char))


----------------------------------------------------------------------------
\* C26: auto_equip_defaults only fills empty slots: a slot that holds an entry
\* before the call holds the same entry after it.
C26_OccupiedSlotsKept ==
    last.op = "auto_equip" =>
        \A slot \in SlotSet :
            last.pre.equipped[slot] # None =>
                char.equipped[slot] = last.pre.equipped[slot]


----------------------------------------------------------------------------
\* Equipment machine on inventories of clothing and jewelry.
InitWardrobe ==
    /\ names = NameTables
    /\ char \in {ensure_equipped_slots(CharacterSheet("Fighter", inv)) : inv \in Wardrobes}
    /\ last = Call("init", "", "", char)

SpecWardrobe == InitWardrobe /\ [][NextEquip]_vars

\* The character after each step of auto_equip_defaults, from the character
\* it was called on to the one it leaves.
AutoStages(c) ==
    LET c0 == ensure_equipped_slots(c)
        c1 == auto_body(c0)
        c2 == auto_right_arm(c1)
        c3 == auto_left_arm(c2)
        c4 == auto_feet(c3)
        c5 == auto_neck(c4)
        c6 == auto_head(c5)
        c7 == auto_right_hand(c6)
        c8 == auto_left_hand(c7)
    IN  <<c0, c1, c2, c3, c4, c5, c6, c7, c8>>

\* C27: a slot that a step of auto_equip_defaults fills is still occupied
\* when the call returns, also when the item has no catalog record.
C27_FilledSlotsStayFilled ==
    last.op = "auto_equip" =>
        LET stages == AutoStages(last.pre)
        IN  \A slot \in SlotSet : \A k \in 1..(Len(stages) - 1) :
                (stages[k].equipped[slot] = None /\ stages[k + 1].equipped[slot] # None)
                    => char.equipped[slot] # None

\* The earring (no catalog record) was put on the right hand and then moved
\* to the left hand: the call returns with the right hand empty.
C27_Witness ==
    /\ last.op = "auto_equip"
    /\ last.pre.inventory = <<"Earring", "Boots">>
    /\ last.pre.equipped["right_hand"] = None /\ last.pre.equipped["left_hand"] = None
    /\ stats_of("Earring") = None
    /\ AutoStages(last.pre)[8].equipped["right_hand"] # None
    /\ char.equipped["right_hand"] = None
    /\ char.equipped["left_hand"] # None /\ char.equipped["left_hand"].item = "Earring"

\* An occupied arm loses its shield to the other arm.
C26_Witness ==
    /\ last.op = "auto_equip"
    /\ last.pre.equipped["right_arm"] # None
    /\ last.pre.equipped["right_arm"].item = "Shield"
    /\ last.pre.equipped["left_arm"] = None
    /\ char.equipped["right_arm"] = None
    /\ char.equipped["left_arm"] # None /\ char.equipped["left_arm"].item = "Shield"


----------------------------------------------------------------------------
\* The sheet is a caster's and has its level-1 pool (as initialize leaves it).
InitializedPool(c) ==
    /\ DictHas(CLASS_SPELL_LISTS, class_of(c.race_class))
    /\ PoolOf(c) # None

\* C28: once a caster has its level-1 pool, no step of initialize, validate
\* or cast raises current; from current = 0 on it stays 0 and every cast
\* fails.
C28_SlotsNeverRestored ==
    [][InitializedPool(char) =>
          /\ InitializedPool(char')
          /\ PoolOf(char')[1].current <= PoolOf(char)[1].current
          /\ PoolOf(char)[1].current = 0 =>
                 /\ PoolOf(char')[1].current = 0
                 /\ last'.op = "cast" => ~last'.ok]_vars

\* A prepared spell is cast on an empty pool, after a cast that emptied it
\* or a validate that found it empty, and fails.
C28_Witness ==
    /\ last.op = "cast" /\ ~last.ok
    /\ InitializedPool(last.pre)
    /\ IsPrepared(last.pre, last.spell)
    /\ PoolOf(last.pre)[1].current = 0
    /\ PoolOf(char)[1].current = 0


----------------------------------------------------------------------------
\* The sheet's canonical class has no entry in the class-to-spell-list table.
NonCaster(c) == ~DictHas(CLASS_SPELL_LISTS, class_of(c.race_class))

\* known, prepared and spell_slots are all there and all empty
SpellStateEmpty(c) ==
    /\ {"spells_known", "spells_prepared", "spell_slots"} \subseteq DOMAIN c
    /\ c.spells_known = <<>> /\ c.spells_prepared = <<>> /\ c.spell_slots = <<>>

\* C29: for a character whose canonical class is not in the class-to-spell-list
\* table, initialize followed by validate leaves known, prepared and
\* spell_slots empty whatever they held, and every cast after that fails and
\* changes nothing.
C29_NonCasterHasNoSpells ==
    NonCaster(char) =>
        /\ last.op = "initialize_or_validate" => SpellStateEmpty(char)
        /\ (Validated /\ last.op = "cast") =>
               /\ ~last.ok
               /\ char = last.pre
               /\ SpellStateEmpty(char)

\* A Fighter that came with known and prepared spells and a slot to spend is
\* initialized and validated.
C29_Witness ==
    /\ last.op = "initialize_or_validate"
    /\ NonCaster(last.pre)
    /\ KnownOf(last.pre) # <<>>
    /\ IsPrepared(last.pre, "Magic Missile")
    /\ CurrentSlots(last.pre) > 0
    /\ SpellStateEmpty(char)

=============================================================================
